---- MODULE Spec2Model ----
(***************************************************************************)
(* The request/response pipeline of the UTDRS API gateway.                 *)
(*                                                                         *)
(* app.py builds one ASGI stack.  Starlette's add_middleware puts each new *)
(* middleware in front of the ones added before, and FastAPI keeps its own *)
(* exception boundary (with the handlers registered on the app) innermost, *)
(* right around the router.  For app.py:25-30 the stack, outermost first,  *)
(* is therefore                                                            *)
(*                                                                         *)
(*   ErrorHandlerMiddleware        (added last of the three, app.py:27)    *)
(*   RequestValidationMiddleware   (app.py:26)                             *)
(*   SecurityMiddleware            (added first, app.py:25)                *)
(*   exception handlers of the app (app.py:17, app.py:30)                  *)
(*   route handler                                                         *)
(*                                                                         *)
(* A response travels outwards through the `send` callable each stage was  *)
(* given: a stage's send_wrapper sees only what the stages inside it send. *)
(* Wall-clock readings (start_time, process_time) only reach the log and   *)
(* decide nothing, so they are left out of the log records.                *)
(***************************************************************************)
EXTENDS Integers, Sequences, FiniteSets, TLC

\* ---------------------------------------------------------------- bounds

\* Field errors one validation exception reports at most.
MaxErrors == 2

\* Characters of a string handed to sanitize_input at most.
MaxLen == 3

\* Items of a list inside a mapping handed to validate_json_input at most.
MaxItems == 2

\* The latest reading of the clock, in seconds.
MaxTime == 4

\* The configured request count and window of the rate limit, in seconds.
RateLimitRequests == 2

RateLimitWindow == 2

\* ------------------------------------------------------------- constants

\* security.py:22  max_request_size: int = 10 * 1024 * 1024
MaxRequestSize == 10485760

\* getattr(request.state, "request_id", None)
None == "None"

\* The in-flight request tasks.
Reqs == {"r1", "r2"}

\* The values uuid.uuid4() may return (security.py:35).
Ids == {"id1", "id2"}

\* ------------------------------------------------------------- text

\* A str is a sequence of characters.
Range(s) == {s[i] : i \in DOMAIN s}

LowerChar(c) ==
    CASE c = "E" -> "e"
      [] c = "X" -> "x"
      [] c = "V" -> "v"
      [] OTHER -> c

\* str.lower()
Lower(s) == [i \in DOMAIN s |-> LowerChar(s[i])]

\* Python's `sub in s` on strings
Contains(sub, s) ==
    \E i \in 0..(Len(s) - Len(sub)) : SubSeq(s, i + 1, i + Len(sub)) = sub

Digits == <<"0", "1", "2", "3", "4", "5", "6", "7", "8", "9">>

DigitVal(c) == CHOOSE d \in 0..9 : Digits[d + 1] = c

IsDigit(c) == \E d \in 0..9 : Digits[d + 1] = c

RECURSIVE DigitsValue(_)
DigitsValue(s) ==
    IF s = <<>> THEN 0
    ELSE DigitsValue(SubSeq(s, 1, Len(s) - 1)) * 10 + DigitVal(s[Len(s)])

\* int(s): an optional sign and at least one decimal digit, else ValueError.
IntParses(s) ==
    LET body == IF s # <<>> /\ s[1] \in {"-", "+"} THEN Tail(s) ELSE s
    IN body # <<>> /\ \A i \in DOMAIN body : IsDigit(body[i])

IntOf(s) ==
    IF s[1] = "-" THEN 0 - DigitsValue(Tail(s))
    ELSE IF s[1] = "+" THEN DigitsValue(Tail(s))
    ELSE DigitsValue(s)

\* ---------------------------------------------------------- exceptions

\* One entry of exc.errors(): a location path (strings and indices), a
\* message and a type tag.  A location item is <<"s", text>> or <<"i", index>>.
FieldErrors ==
    { [loc |-> << <<"s", "body">>, <<"s", "username">> >>,
       msg |-> "field required", type |-> "value_error.missing"],
      [loc |-> << <<"s", "body">>, <<"i", 0>> >>,
       msg |-> "value is not a valid integer", type |-> "type_error.integer"] }

ErrorLists ==
    UNION { [1..n -> FieldErrors] : n \in 1..MaxErrors }

\* What a route handler (or the code it calls) may raise.
HTTPExceptions ==
    [cls : {"HTTPException"}, status_code : {400, 401},
     detail : {"Incorrect username or password"}]

RequestValidationErrors ==
    [cls : {"RequestValidationError"}, errors : ErrorLists]

ValidationErrors ==
    [cls : {"ValidationError"}, errors : ErrorLists]

\* error_handler.py:163-188
BusinessLogicErrors ==
    [cls : {"BusinessLogicError"}, message : {"duplicate entry"},
     error_code : {"DUP_001"}]

DatabaseErrors ==
    [cls : {"DatabaseError"}, message : {"connection reset"},
     operation : {"insert_one"}]

ExternalServiceErrors ==
    [cls : {"ExternalServiceError"}, message : {"upstream timed out"},
     service : {"core-engine"}, status_code : {503}]

\* Exceptions of no classified category: the Python type, str(exc) and
\* the stack trace traceback.format_exc() renders.
OtherErrors ==
    { [cls |-> "KeyError", message |-> "secret-a", traceback |-> "tb-1"],
      [cls |-> "RuntimeError", message |-> "secret-a", traceback |-> "tb-1"],
      [cls |-> "KeyError", message |-> "secret-b", traceback |-> "tb-1"],
      [cls |-> "KeyError", message |-> "secret-a", traceback |-> "tb-2"] }

\* An exception of a class whose __str__ raises.
UnprintableErrors ==
    { [cls |-> "UnprintableError", traceback |-> "tb-1"] }

RouteExceptions ==
    HTTPExceptions \cup RequestValidationErrors \cup ValidationErrors
    \cup BusinessLogicErrors \cup DatabaseErrors \cup ExternalServiceErrors
    \cup OtherErrors \cup UnprintableErrors

\* int(content_length) on a malformed header (security.py:49)
ValueError ==
    [cls |-> "ValueError", message |-> "invalid literal for int()",
     traceback |-> "tb-int"]

\* The classes the Error Classifier tests with isinstance, with their
\* subclasses: fastapi.exceptions.RequestValidationError derives from
\* pydantic.ValidationError (error_handler.py:8-10).
Subclasses(cls) ==
    CASE cls = "HTTPException" -> {"HTTPException"}
      [] cls = "RequestValidationError" -> {"RequestValidationError"}
      [] cls = "ValidationError" -> {"ValidationError", "RequestValidationError"}
      [] OTHER -> {cls}

isinstance(exc, cls) == exc.cls \in Subclasses(cls)

\* ------------------------------------------------------------ requests

Star == <<"*">>

\* settings.ALLOWED_HOSTS as app.py:25 passes it: unset or empty, the
\* wildcard, or a list of host names.
AllowedHostsSettings == { <<>>, <<Star>>, << <<"E", "x">> >> }

\* Host header values: "vEx" (holds "ex" once lower-cased) and "v".
HostValues == { <<"v", "E", "x">>, <<"v">> }

\* Content-Length header values: "", "abc", the maximum, one more.
ContentLengthValues ==
    { <<>>, <<"a", "b", "c">>,
      <<"1", "0", "4", "8", "5", "7", "6", "0">>,
      <<"1", "0", "4", "8", "5", "7", "6", "1">> }

\* request.headers: a mapping that may lack either header.
NoHeaders == [n \in {} |-> <<>>]

RequestHeaders ==
    { h @@ c :
        h \in {NoHeaders} \cup {("host" :> v) : v \in HostValues},
        c \in {NoHeaders} \cup {("content-length" :> v) : v \in ContentLengthValues} }

\* headers.get(name, default)
Get(headers, name, default) ==
    IF name \in DOMAIN headers THEN headers[name] ELSE default

Requests ==
    [type : {"http"}, method : {"POST"}, path : {"/api/v1/auth/login"},
     headers : RequestHeaders, remote_address : {"10.0.0.1"}]

\* Scopes of the other protocols: a websocket connection, without headers
\* or with a host no allow-list entry matches and a Content-Length above
\* the maximum, and the lifespan of the server.
OtherScopes ==
    [type : {"websocket"}, method : {""}, path : {"/ws"},
     headers : {NoHeaders,
                ("host" :> <<"v">>)
                @@ ("content-length" :> <<"1", "0", "4", "8", "5", "7", "6", "1">>)},
     remote_address : {"10.0.0.1"}]
    \cup [type : {"lifespan"}, method : {""}, path : {""}, headers : {NoHeaders},
          remote_address : {""}]

\* scope["type"] taking a websocket for an HTTP request.
is_http_or_websocket(scope) == scope.type \in {"http", "websocket"}

\* scope["type"] != "http", negated (security.py:28, 97; error_handler.py:22)
is_http(scope) == scope.type = "http"

\* ----------------------------------------------------------- responses

\* A list of (name, value) header pairs becomes a dict and a list again
\* (security.py:60, 75): dict() keeps each name once, at the place of its
\* first occurrence, with the value of its last.
HasKey(d, k) == \E i \in DOMAIN d : d[i][1] = k

DictSet(d, k, v) ==
    IF HasKey(d, k)
    THEN [i \in DOMAIN d |-> IF d[i][1] = k THEN <<k, v>> ELSE d[i]]
    ELSE Append(d, <<k, v>>)

RECURSIVE DictOf(_)
DictOf(pairs) ==
    IF pairs = <<>> THEN <<>>
    ELSE LET last == pairs[Len(pairs)]
         IN DictSet(DictOf(SubSeq(pairs, 1, Len(pairs) - 1)), last[1], last[2])

\* The values a response carries for header k, in order.
HeaderValues(headers, k) ==
    LET idx == {i \in DOMAIN headers : headers[i][1] = k}
    IN {headers[i][2] : i \in idx}

\* starlette JSONResponse(status_code=..., content=...)
JSONResponse(status_code, content) ==
    [status |-> status_code,
     headers |-> << <<"content-length", "len(body)">>,
                    <<"content-type", "application/json">> >>,
     body |-> content]

\* What a route handler may answer: status, its own headers, a body.
RouteHeaders ==
    { << <<"content-type", "application/json">> >>,
      << <<"content-type", "application/json">>, <<"x-frame-options", "SAMEORIGIN">>,
         <<"x-request-id", "from-handler">> >>,
      << <<"set-cookie", "a=1">>, <<"set-cookie", "b=2">> >> }

RouteResponses ==
    [status : {200}, headers : RouteHeaders, body : {[message |-> "ok"]}]

\* ------------------------------------------------- SecurityMiddleware

\* security.py:24  self.allowed_hosts = allowed_hosts or ["*"]
SecurityMiddleware_init(setting) == IF setting = <<>> THEN <<Star>> ELSE setting

\* _validate_host comparing the Host header as it was sent.
validate_host_case_sensitive(hosts, req) ==
    IF \E i \in DOMAIN hosts : hosts[i] = Star
    THEN TRUE
    ELSE LET host == Get(req.headers, "host", <<>>)
         IN \E i \in DOMAIN hosts : Contains(Lower(hosts[i]), host)

\* security.py:81-87
validate_host(hosts, req) ==
    IF \E i \in DOMAIN hosts : hosts[i] = Star
    THEN TRUE
    ELSE LET host == Lower(Get(req.headers, "host", <<>>))
         IN \E i \in DOMAIN hosts : Contains(Lower(hosts[i]), host)

\* check_request_size with the comparison off by one.
check_request_size_off_by_one(req) ==
    LET content_length == Get(req.headers, "content-length", <<>>)
    IN IF content_length = <<>> THEN "ok"
       ELSE IF ~IntParses(content_length) THEN "ValueError"
       ELSE IF IntOf(content_length) > MaxRequestSize + 1 THEN "too_large"
       ELSE "ok"

\* check_request_size rejecting the maximum itself.
check_request_size_inclusive(req) ==
    LET content_length == Get(req.headers, "content-length", <<>>)
    IN IF content_length = <<>> THEN "ok"
       ELSE IF ~IntParses(content_length) THEN "ValueError"
       ELSE IF IntOf(content_length) >= MaxRequestSize THEN "too_large"
       ELSE "ok"

\* security.py:48-49: "ok" (the size check passes), "too_large", or
\* "ValueError" when int() rejects the header.
check_request_size(req) ==
    LET content_length == Get(req.headers, "content-length", <<>>)
    IN IF content_length = <<>> THEN "ok"
       ELSE IF ~IntParses(content_length) THEN "ValueError"
       ELSE IF IntOf(content_length) > MaxRequestSize THEN "too_large"
       ELSE "ok"

\* security.py:63-70
security_headers(request_id) ==
    << <<"x-content-type-options", "nosniff">>,
       <<"x-frame-options", "DENY">>,
       <<"x-xss-protection", "1; mode=block">>,
       <<"referrer-policy", "strict-origin-when-cross-origin">>,
       <<"content-security-policy", "default-src 'self'">>,
       <<"x-request-id", request_id>> >>

RECURSIVE SetAll(_, _)
SetAll(d, pairs) ==
    IF pairs = <<>> THEN d
    ELSE SetAll(DictSet(d, pairs[1][1], pairs[1][2]), Tail(pairs))

\* security.py:58-77: the send_wrapper SecurityMiddleware hands to the
\* stage inside it.
security_send_wrapper(message, request_id) ==
    [message EXCEPT !.headers = SetAll(DictOf(message.headers), security_headers(request_id))]

\* security.py:40-43 and 50-53
invalid_host_response ==
    JSONResponse(400, [detail |-> <<"Invalid host header">>])

too_large_response ==
    JSONResponse(413, [detail |-> <<"Request too large">>])

\* ---------------------------------------- RequestValidationMiddleware

\* security.py:104-110
incoming_request_event(req, request_id) ==
    [event |-> "Incoming request", level |-> "info", method |-> req.method,
     url |-> req.path, request_id |-> request_id]

\* security.py:119-124
request_completed_event(message, request_id) ==
    [event |-> "Request completed", level |-> "info",
     status_code |-> message.status, request_id |-> request_id]

\* -------------------------------------------- ErrorHandlerMiddleware

\* str(x) of one location item
Str(item) == IF item[1] = "i" THEN ToString(item[2]) ELSE item[2]

\* ".".join(str(x) for x in loc): the text, as its fragments in order
RECURSIVE Join(_)
Join(loc) ==
    IF loc = <<>> THEN <<>>
    ELSE IF Len(loc) = 1 THEN <<Str(loc[1])>>
    ELSE <<Str(loc[1]), ".">> \o Join(Tail(loc))

\* error_handler.py:75-83 and 107-115
field_errors(exc) ==
    [i \in DOMAIN exc.errors |->
        [field |-> Join(exc.errors[i].loc),
         message |-> exc.errors[i].msg,
         type |-> exc.errors[i].type]]

\* error_handler.py:49-69
handle_http_exception(req, exc, request_id) ==
    [log |-> [event |-> "HTTP exception occurred", level |-> "warning",
              status_code |-> exc.status_code, detail |-> exc.detail,
              request_id |-> request_id, path |-> req.path, method |-> req.method],
     response |-> JSONResponse(exc.status_code,
                    [error |-> "HTTP_EXCEPTION",
                     detail |-> <<exc.detail>>,
                     request_id |-> request_id])]

\* error_handler.py:71-101
handle_validation_error(req, exc, request_id) ==
    [log |-> [event |-> "Request validation error", level |-> "warning",
              errors |-> field_errors(exc),
              request_id |-> request_id, path |-> req.path, method |-> req.method],
     response |-> JSONResponse(422,
                    [error |-> "VALIDATION_ERROR",
                     detail |-> <<"Request validation failed">>,
                     errors |-> field_errors(exc),
                     request_id |-> request_id])]

\* error_handler.py:103-133
handle_pydantic_validation_error(req, exc, request_id) ==
    [log |-> [event |-> "Pydantic validation error", level |-> "warning",
              errors |-> field_errors(exc),
              request_id |-> request_id, path |-> req.path, method |-> req.method],
     response |-> JSONResponse(422,
                    [error |-> "VALIDATION_ERROR",
                     detail |-> <<"Data validation failed">>,
                     errors |-> field_errors(exc),
                     request_id |-> request_id])]

\* type(exc).__name__, str(exc) and traceback.format_exc() of any exception
TypeName(exc) == exc.cls

StrOf(exc) ==
    IF "message" \in DOMAIN exc THEN exc.message
    ELSE IF "detail" \in DOMAIN exc THEN exc.detail
    ELSE "validation errors"

TracebackOf(exc) ==
    IF "traceback" \in DOMAIN exc THEN exc.traceback ELSE "tb-route"

\* str(exc) raises instead of returning a text (error_handler.py:144).
str_raises(exc) == exc.cls = "UnprintableError"

\* handle_internal_error with the exception's text as the detail.
handle_internal_error_leaking(req, exc, request_id) ==
    [log |-> [event |-> "Internal server error", level |-> "error",
              error_type |-> TypeName(exc), error_message |-> StrOf(exc),
              traceback |-> TracebackOf(exc),
              request_id |-> request_id, path |-> req.path, method |-> req.method],
     response |-> JSONResponse(500,
                    [error |-> "INTERNAL_SERVER_ERROR",
                     detail |-> <<StrOf(exc)>>,
                     request_id |-> request_id])]

\* error_handler.py:135-159
handle_internal_error(req, exc, request_id) ==
    [log |-> [event |-> "Internal server error", level |-> "error",
              error_type |-> TypeName(exc), error_message |-> StrOf(exc),
              traceback |-> TracebackOf(exc),
              request_id |-> request_id, path |-> req.path, method |-> req.method],
     response |-> JSONResponse(500,
                    [error |-> "INTERNAL_SERVER_ERROR",
                     detail |-> <<"An internal server error occurred">>,
                     request_id |-> request_id])]

\* error_handler.py:34-47
handle_exception(req, exc, request_id) ==
    IF isinstance(exc, "HTTPException")
    THEN handle_http_exception(req, exc, request_id)
    ELSE IF isinstance(exc, "RequestValidationError")
    THEN handle_validation_error(req, exc, request_id)
    ELSE IF isinstance(exc, "ValidationError")
    THEN handle_pydantic_validation_error(req, exc, request_id)
    ELSE handle_internal_error(req, exc, request_id)

\* error_handler.py:192-211
business_logic_error_handler(exc, request_id) ==
    [log |-> [event |-> "Business logic error", level |-> "warning",
              error_code |-> exc.error_code, message |-> exc.message,
              request_id |-> request_id],
     response |-> JSONResponse(400,
                    [error |-> "BUSINESS_LOGIC_ERROR",
                     error_code |-> exc.error_code,
                     detail |-> <<exc.message>>,
                     request_id |-> request_id])]

\* error_handler.py:214-232
database_error_handler(exc, request_id) ==
    [log |-> [event |-> "Database error", level |-> "error",
              operation |-> exc.operation, message |-> exc.message,
              request_id |-> request_id],
     response |-> JSONResponse(500,
                    [error |-> "DATABASE_ERROR",
                     detail |-> <<"A database error occurred">>,
                     request_id |-> request_id])]

\* error_handler.py:235-254
external_service_error_handler(exc, request_id) ==
    [log |-> [event |-> "External service error", level |-> "error",
              service |-> exc.service, status_code |-> exc.status_code,
              message |-> exc.message, request_id |-> request_id],
     response |-> JSONResponse(502,
                    [error |-> "EXTERNAL_SERVICE_ERROR",
                     detail |-> <<"External service (", exc.service, ") is unavailable">>,
                     request_id |-> request_id])]

\* ------------------------------------------- the app's exception handlers

\* The exception classes the app has a handler for: the two FastAPI
\* installs on every application (app.py:17) and the one app.py:30 adds.
\* No handler is registered for the domain exceptions of error_handler.py.
exception_handlers == {"HTTPException", "RequestValidationError", "RateLimitExceeded"}

\* FastAPI's handlers for the two classes a route handler of this model
\* raises: the exception's status with {"detail": exc.detail}, and 422
\* with {"detail": exc.errors()}.
exception_handler_response(exc) ==
    IF exc.cls = "HTTPException"
    THEN JSONResponse(exc.status_code, [detail |-> <<exc.detail>>])
    ELSE JSONResponse(422, [detail |-> exc.errors])

\* An exception raised once the response has started (a streamed body).
LateErrors ==
    [cls : {"RuntimeError"}, message : {"secret-a"}, traceback : {"tb-1"}]

\* --------------------------------------------------------------- state

VARIABLES
    allowed_hosts,  \* SecurityMiddleware.allowed_hosts
    pc,             \* per request: the stage its task is about to run
    request,        \* per request: method, path and headers received
    state,          \* per request: request.state.request_id (scope["state"])
    exc,            \* per request: the exception raised while serving it
    log,            \* per request: the log events emitted, in order
    client,         \* per request: the response messages sent to the client
    handler_runs,   \* per request: how often a route handler has run
    arg,            \* the input of a function called on its own
    result,         \* what that call returned
    now,            \* the clock, in seconds
    hits            \* per client address: the limiter's window and count

\* What no stage of the pipeline reads or writes.
other_vars == <<arg, result, now, hits>>

vars == <<allowed_hosts, pc, request, state, exc, log, client, handler_runs, other_vars>>

NoRequest ==
    [type |-> "", method |-> "", path |-> "", headers |-> NoHeaders, remote_address |-> ""]

NoExc == [cls |-> "none"]

NoArg == [fn |-> "none"]

NoResult == [fn |-> "none"]

\* get_remote_address(request) of the clients (security.py:17).
Addresses == {"10.0.0.1", "10.0.0.2"}

\* The limiter's counters before any request was counted.
NoHits == [a \in Addresses |-> [start |-> 0, count |-> 0]]

Init ==
    /\ allowed_hosts \in {SecurityMiddleware_init(s) : s \in AllowedHostsSettings}
    /\ pc = [r \in Reqs |-> "idle"]
    /\ request = [r \in Reqs |-> NoRequest]
    /\ state = [r \in Reqs |-> None]
    /\ exc = [r \in Reqs |-> NoExc]
    /\ log = [r \in Reqs |-> <<>>]
    /\ client = [r \in Reqs |-> <<>>]
    /\ handler_runs = [r \in Reqs |-> 0]
    /\ arg = NoArg
    /\ result = NoResult
    /\ now = 0
    /\ hits = NoHits

\* A message as the client receives it; origin names the code that built it.
Message(origin, response) ==
    [origin |-> origin, status |-> response.status,
     headers |-> response.headers, body |-> response.body]

\* error_handler.py:21-29: an HTTP request arrives at the outermost stage,
\* which enters its try block and calls the next stage.
ErrorHandlerMiddleware_call(r) ==
    /\ pc[r] = "idle"
    /\ \E req \in Requests : request' = [request EXCEPT ![r] = req]
    /\ pc' = [pc EXCEPT ![r] = "request_validation"]
    /\ UNCHANGED <<allowed_hosts, state, exc, log, client, handler_runs, other_vars>>

\* security.py:96-128 up to the call of the next stage: an event of another
\* protocol is passed on; for an HTTP request the request-start event is
\* logged with the request id the scope holds at that moment.
RequestValidationMiddleware_call(r) ==
    /\ pc[r] = "request_validation"
    /\ IF ~is_http(request[r])
       THEN UNCHANGED log
       ELSE log' = [log EXCEPT ![r] = Append(@, incoming_request_event(request[r], state[r]))]
    /\ pc' = [pc EXCEPT ![r] = "security"]
    /\ UNCHANGED <<allowed_hosts, request, state, exc, client, handler_runs, other_vars>>

\* send_wrapper putting the processing time into a header of the response.
rv_send_wrapper_adding_header(r, message, request_id) ==
    /\ log' = [log EXCEPT ![r] = Append(@, request_completed_event(message, request_id))]
    /\ client' = [client EXCEPT ![r] =
                    Append(@, [message EXCEPT !.headers =
                                  Append(@, <<"x-process-time", "process_time">>)])]

\* security.py:114-126: RequestValidationMiddleware's send_wrapper logs the
\* completion event and forwards the message unchanged.
rv_send_wrapper(r, message, request_id) ==
    /\ log' = [log EXCEPT ![r] = Append(@, request_completed_event(message, request_id))]
    /\ client' = [client EXCEPT ![r] = Append(@, message)]

\* SecurityMiddleware.__call__ attaching the request id once both checks
\* have passed.
SecurityMiddleware_call_id_after_checks(r) ==
    /\ pc[r] = "security"
    /\ \E request_id \in Ids \ {state[q] : q \in Reqs} :
        IF ~validate_host(allowed_hosts, request[r])
        THEN /\ rv_send_wrapper(r, Message("security", invalid_host_response), state[r])
             /\ pc' = [pc EXCEPT ![r] = "done"]
             /\ UNCHANGED <<exc, state>>
        ELSE IF check_request_size(request[r]) = "ValueError"
        THEN /\ exc' = [exc EXCEPT ![r] = ValueError]
             /\ pc' = [pc EXCEPT ![r] = "except"]
             /\ UNCHANGED <<log, client, state>>
        ELSE IF check_request_size(request[r]) = "too_large"
        THEN /\ rv_send_wrapper(r, Message("security", too_large_response), state[r])
             /\ pc' = [pc EXCEPT ![r] = "done"]
             /\ UNCHANGED <<exc, state>>
        ELSE /\ state' = [state EXCEPT ![r] = request_id]
             /\ pc' = [pc EXCEPT ![r] = "route"]
             /\ UNCHANGED <<exc, log, client>>
    /\ UNCHANGED <<allowed_hosts, request, handler_runs, other_vars>>

\* security.py:27-79: an event of another protocol goes to the next stage
\* as it is; for an HTTP request, the request id, the host check, the size
\* check.  A rejection is sent with the `send` this stage received, which
\* is the send_wrapper of RequestValidationMiddleware.
SecurityMiddleware_call(r) ==
    /\ pc[r] = "security"
    /\ IF ~is_http(request[r])
       THEN /\ pc' = [pc EXCEPT ![r] = "app"]
            /\ UNCHANGED <<state, exc, log, client>>
       ELSE \E request_id \in Ids \ {state[q] : q \in Reqs} :
            /\ state' = [state EXCEPT ![r] = request_id]
            /\ IF ~validate_host(allowed_hosts, request[r])
               THEN /\ rv_send_wrapper(r, Message("security", invalid_host_response),
                                       request_id)
                    /\ pc' = [pc EXCEPT ![r] = "done"]
                    /\ UNCHANGED exc
               ELSE IF check_request_size(request[r]) = "ValueError"
               THEN /\ exc' = [exc EXCEPT ![r] = ValueError]
                    /\ pc' = [pc EXCEPT ![r] = "except"]
                    /\ UNCHANGED <<log, client>>
               ELSE IF check_request_size(request[r]) = "too_large"
               THEN /\ rv_send_wrapper(r, Message("security", too_large_response),
                                       request_id)
                    /\ pc' = [pc EXCEPT ![r] = "done"]
                    /\ UNCHANGED exc
               ELSE /\ pc' = [pc EXCEPT ![r] = "route"]
                    /\ UNCHANGED <<exc, log, client>>
    /\ UNCHANGED <<allowed_hosts, request, handler_runs, other_vars>>

\* route_send with the request id kept in one place for all requests.
route_send_sharing_id(r, origin, response) ==
    LET request_id == state[CHOOSE q \in Reqs : state[q] # None]
    IN rv_send_wrapper(r, security_send_wrapper(Message(origin, response), request_id),
                       request_id)

\* What the stages inside SecurityMiddleware send goes through its
\* send_wrapper and then through RequestValidationMiddleware's.
route_send(r, origin, response) ==
    rv_send_wrapper(r, security_send_wrapper(Message(origin, response), state[r]), state[r])

\* The route handler returns a response.
Route_respond(r) ==
    /\ pc[r] = "route"
    /\ handler_runs' = [handler_runs EXCEPT ![r] = @ + 1]
    /\ \E response \in RouteResponses : route_send(r, "route", response)
    /\ pc' = [pc EXCEPT ![r] = "done"]
    /\ UNCHANGED <<allowed_hosts, request, state, exc, other_vars>>

\* The route handler raises before it has sent anything: a handler of the
\* app answers, or the exception leaves through the middleware stages.
Route_raise(r) ==
    /\ pc[r] = "route"
    /\ handler_runs' = [handler_runs EXCEPT ![r] = @ + 1]
    /\ \E e \in RouteExceptions :
        /\ exc' = [exc EXCEPT ![r] = e]
        /\ IF e.cls \in exception_handlers
           THEN /\ route_send(r, "exception_handler", exception_handler_response(e))
                /\ pc' = [pc EXCEPT ![r] = "done"]
           ELSE /\ pc' = [pc EXCEPT ![r] = "except"]
                /\ UNCHANGED <<log, client>>
    /\ UNCHANGED <<allowed_hosts, request, state, other_vars>>

\* The route handler starts its response and raises afterwards.
Route_respond_then_raise(r) ==
    /\ pc[r] = "route"
    /\ handler_runs' = [handler_runs EXCEPT ![r] = @ + 1]
    /\ \E response \in RouteResponses : route_send(r, "route", response)
    /\ \E e \in LateErrors : exc' = [exc EXCEPT ![r] = e]
    /\ pc' = [pc EXCEPT ![r] = "except"]
    /\ UNCHANGED <<allowed_hosts, request, state, other_vars>>

\* error_handler.py:30-32: the exception reaches the except clause; the
\* synthesized response is sent with the `send` the outermost stage
\* received, past every send_wrapper.  The clause has no try of its own:
\* what _handle_exception raises leaves the stage, with nothing logged and
\* nothing sent by it.
ErrorHandlerMiddleware_except(r) ==
    /\ pc[r] = "except"
    /\ IF ~isinstance(exc[r], "HTTPException") /\ ~isinstance(exc[r], "ValidationError")
          /\ str_raises(exc[r])
       THEN /\ pc' = [pc EXCEPT ![r] = "raised"]
            /\ UNCHANGED <<log, client>>
       ELSE LET handled == handle_exception(request[r], exc[r], state[r])
            IN /\ log' = [log EXCEPT ![r] = Append(@, handled.log)]
               /\ client' = [client EXCEPT ![r] =
                               Append(@, Message("error_handler", handled.response))]
               /\ pc' = [pc EXCEPT ![r] = "done"]
    /\ UNCHANGED <<allowed_hosts, request, state, exc, handler_runs, other_vars>>

Next ==
    \E r \in Reqs :
        \/ ErrorHandlerMiddleware_call(r)
        \/ RequestValidationMiddleware_call(r)
        \/ SecurityMiddleware_call(r)
        \/ Route_respond(r)
        \/ Route_raise(r)
        \/ Route_respond_then_raise(r)
        \/ ErrorHandlerMiddleware_except(r)

Spec == Init /\ [][Next]_vars

\* ============================================================== claims

Done(r) == pc[r] = "done"

\* The declared Content-Length is a number above the configured maximum.
DeclaresTooLarge(req) ==
    LET content_length == Get(req.headers, "content-length", <<>>)
    IN IntParses(content_length) /\ IntOf(content_length) > MaxRequestSize

\* The request ended with exactly one response message.
OneResponse(r) == Len(client[r]) = 1

\* The exception the route handler of request r raised.
RouteRaised(r, cls) == handler_runs[r] > 0 /\ exc[r].cls = cls

\* C1: every response that leaves the pipeline, from a route handler, a
\* Security Gate short-circuit or the Error Classifier, carries the five
\* fixed security headers and X-Request-Id, each exactly once and with
\* the fixed value (the request's id for X-Request-Id).
C1_EveryResponseCarriesSecurityHeaders ==
    \A r \in Reqs : \A i \in DOMAIN client[r] :
        LET wanted == security_headers(state[r])
        IN \A j \in DOMAIN wanted :
            /\ HeaderValues(client[r][i].headers, wanted[j][1]) = {wanted[j][2]}
            /\ Cardinality({k \in DOMAIN client[r][i].headers :
                               client[r][i].headers[k][1] = wanted[j][1]}) = 1

\* C2: every request-start and completion event logged for a request
\* carries the correlation id that the request's response returns in
\* X-Request-Id.
C2_LogEventsCarryResponseRequestId ==
    \A r \in Reqs : \A i \in DOMAIN log[r] : \A k \in DOMAIN client[r] :
        log[r][i].event \in {"Incoming request", "Request completed"}
        => \A v \in HeaderValues(client[r][k].headers, "x-request-id") :
               log[r][i].request_id = v

\* C3 as stated: a request whose declared Content-Length exceeds the
\* maximum is answered 413 and no route handler runs for it.
C3_TooLargeAlways413 ==
    \A r \in Reqs :
        DeclaresTooLarge(request[r])
        => /\ handler_runs[r] = 0
           /\ Done(r) => OneResponse(r) /\ client[r][1].status = 413

\* C3 amended: no route handler runs for a request whose declared
\* Content-Length exceeds the maximum, and the request is answered 413
\* when its Host header passes host validation (a disallowed host is
\* answered 400 first).
C3_TooLarge413WhenHostAllowed ==
    \A r \in Reqs :
        DeclaresTooLarge(request[r])
        => /\ handler_runs[r] = 0
           /\ pc[r] # "route"
           /\ Done(r) =>
                /\ OneResponse(r)
                /\ client[r][1].status =
                      IF validate_host(allowed_hosts, request[r]) THEN 413 ELSE 400

C3_Witness ==
    \E r \in Reqs :
        /\ Done(r)
        /\ DeclaresTooLarge(request[r])
        /\ validate_host(allowed_hosts, request[r])
        /\ "host" \in DOMAIN request[r].headers
        /\ ~(\E i \in DOMAIN allowed_hosts : allowed_hosts[i] = Star)
        /\ client[r][1].status = 413

\* C4: a request with a disallowed Host under a non-wildcard allow-list is
\* answered 400, the response carries the request's X-Request-Id, and
\* neither a later stage nor a route handler runs.
C4_InvalidHost400WithRequestId ==
    \A r \in Reqs :
        (Done(r) /\ ~validate_host(allowed_hosts, request[r]))
        => /\ OneResponse(r)
           /\ client[r][1].status = 400
           /\ handler_runs[r] = 0
           /\ HeaderValues(client[r][1].headers, "x-request-id") = {state[r]}

\* C5: a business-logic exception with message m and code c raised by a
\* route handler is answered 400 with exactly
\* {error: BUSINESS_LOGIC_ERROR, error_code: c, detail: m, request_id: id}.
C5_BusinessLogicError400 ==
    \A r \in Reqs :
        (Done(r) /\ RouteRaised(r, "BusinessLogicError"))
        => /\ OneResponse(r)
           /\ client[r][1].status = 400
           /\ DOMAIN client[r][1].body = {"error", "error_code", "detail", "request_id"}
           /\ client[r][1].body.error = "BUSINESS_LOGIC_ERROR"
           /\ client[r][1].body.error_code = exc[r].error_code
           /\ client[r][1].body.detail = <<exc[r].message>>
           /\ client[r][1].body.request_id = state[r]

\* C6: an external-service exception naming service s with upstream
\* status u is answered 502 with kind EXTERNAL_SERVICE_ERROR and a detail
\* that holds s; neither u nor the exception's message is in the body.
C6_ExternalServiceError502 ==
    \A r \in Reqs :
        (Done(r) /\ RouteRaised(r, "ExternalServiceError"))
        => /\ OneResponse(r)
           /\ client[r][1].status = 502
           /\ client[r][1].body.error = "EXTERNAL_SERVICE_ERROR"
           /\ exc[r].service \in Range(client[r][1].body.detail)
           /\ exc[r].message \notin Range(client[r][1].body.detail)
           /\ ToString(exc[r].status_code) \notin Range(client[r][1].body.detail)
           /\ DOMAIN client[r][1].body = {"error", "detail", "request_id"}

\* The exception belongs to none of the classified categories.
Unclassified(e) ==
    e.cls \notin {"none", "HTTPException", "RequestValidationError", "ValidationError",
                  "BusinessLogicError", "DatabaseError", "ExternalServiceError"}

\* Every text a response body holds.
BodyTexts(body) ==
    {body.error, body.request_id} \cup Range(body.detail)

\* The response the Error Classifier synthesized for request r.
ClassifierResponse(r) == client[r][Len(client[r])]

C8_HTTPExceptionEnvelope ==
    \A r \in Reqs :
        (Done(r) /\ RouteRaised(r, "HTTPException"))
        => /\ OneResponse(r)
           /\ client[r][1].status = exc[r].status_code
           /\ client[r][1].body.detail = <<exc[r].detail>>
           /\ "error" \in DOMAIN client[r][1].body
           /\ client[r][1].body.error = "HTTP_EXCEPTION"
           /\ "request_id" \in DOMAIN client[r][1].body
           /\ client[r][1].body.request_id = state[r]

\* The field-error list the claim describes, built from what the
\* validation layer reported.
ReportedErrors(e) ==
    [i \in 1..Len(e.errors) |->
        [field |-> Join(e.errors[i].loc), message |-> e.errors[i].msg,
         type |-> e.errors[i].type]]

\* C9: a validation failure is answered 422 with kind VALIDATION_ERROR,
\* detail "Request validation failed" for a request-schema failure and
\* "Data validation failed" for a data-model failure, and an errors list
\* with one entry per reported failure, in the reported order, each with
\* the location path joined with '.', the message and the type.
C9_ValidationErrorEnvelope ==
    \A r \in Reqs :
        (Done(r) /\ (RouteRaised(r, "RequestValidationError") \/ RouteRaised(r, "ValidationError")))
        => /\ OneResponse(r)
           /\ client[r][1].status = 422
           /\ "error" \in DOMAIN client[r][1].body
           /\ client[r][1].body.error = "VALIDATION_ERROR"
           /\ client[r][1].body.detail =
                 IF exc[r].cls = "RequestValidationError"
                 THEN <<"Request validation failed">>
                 ELSE <<"Data validation failed">>
           /\ client[r][1].body.errors = ReportedErrors(exc[r])

\* C10: a database exception with message m and operation o raised by a
\* route handler is answered 500 with kind DATABASE_ERROR and a fixed
\* detail; neither o nor m is in the body.
C10_DatabaseError500 ==
    \A r \in Reqs :
        (Done(r) /\ RouteRaised(r, "DatabaseError"))
        => /\ OneResponse(r)
           /\ client[r][1].status = 500
           /\ client[r][1].body.error = "DATABASE_ERROR"
           /\ client[r][1].body.detail = <<"A database error occurred">>
           /\ {exc[r].operation, exc[r].message} \cap BodyTexts(client[r][1].body) = {}

\* The fixed error kinds of the envelope (error_handler.py:65-250).
ErrorKinds ==
    {"HTTP_EXCEPTION", "VALIDATION_ERROR", "BUSINESS_LOGIC_ERROR", "DATABASE_ERROR",
     "EXTERNAL_SERVICE_ERROR", "INTERNAL_SERVER_ERROR"}

\* The failure responses the pipeline itself generates.
PipelineFailure(message) ==
    message.origin \in {"security", "rate_limit_handler", "error_handler"}

\* C11: every failure response the pipeline generates (the 400 and 413
\* short-circuits, the 429 rate-limit response, every Error Classifier
\* response) has an error field holding one of the fixed kinds, a detail
\* field and a request_id field holding the request's correlation id.
C11_FailureResponsesAreEnvelopes ==
    \A r \in Reqs : \A i \in DOMAIN client[r] :
        PipelineFailure(client[r][i])
        => /\ {"error", "detail", "request_id"} \subseteq DOMAIN client[r][i].body
           /\ client[r][i].body.error \in ErrorKinds
           /\ client[r][i].body.request_id = state[r]

\* ------------------------------------------------------------ sanitizer

\* A JSON value carries its Python type: [type |-> "str", value |-> text],
\* [type |-> "dict", value |-> keys to values], [type |-> "list", value |->
\* a sequence of values], [type |-> "int", value |-> n].  A text is a
\* sequence of units: a character, or a character reference such as "&lt;".
Letters == {"b"}

Alphabet == {"<", ">", "&", "b", "&lt;"}

\* How the serializer writes one unit of text.
escape(c) ==
    CASE c = "<" -> "&lt;"
      [] c = ">" -> "&gt;"
      [] c = "&" -> "&amp;"
      [] OTHER -> c

\* Where the tag that opens at the head of s ends, 0 when none opens: a
\* tag is "<", a letter, and whatever follows up to the next ">".
TagEnd(s) ==
    IF Len(s) >= 3 /\ s[1] = "<" /\ s[2] \in Letters /\ (\E j \in 3..Len(s) : s[j] = ">")
    THEN CHOOSE j \in 3..Len(s) : s[j] = ">" /\ \A i \in 3..(j - 1) : s[i] # ">"
    ELSE 0

\* clean returning plain text: each reference written as its character.
RECURSIVE clean_to_plain_text(_)
clean_to_plain_text(s) ==
    IF s = <<>> THEN <<>>
    ELSE IF TagEnd(s) > 0 THEN clean_to_plain_text(SubSeq(s, TagEnd(s) + 1, Len(s)))
    ELSE <<(CASE s[1] = "&lt;" -> "<" [] s[1] = "&gt;" -> ">" [] s[1] = "&amp;" -> "&"
              [] OTHER -> s[1])>> \o clean_to_plain_text(Tail(s))

\* bleach.clean(data, tags=[], attributes={}, strip=True), security.py:137-142:
\* no tag is allowed, so each tag is dropped (its content stays) and what
\* is left is written as text, the markup characters as references.
RECURSIVE clean(_)
clean(s) ==
    IF s = <<>> THEN <<>>
    ELSE IF TagEnd(s) > 0 THEN clean(SubSeq(s, TagEnd(s) + 1, Len(s)))
    ELSE <<escape(s[1])>> \o clean(Tail(s))

str(text) == [type |-> "str", value |-> text]

int(n) == [type |-> "int", value |-> <<n>>]

list(items) == [type |-> "list", value |-> items]

dict(items) == [type |-> "dict", value |-> items]

\* security.py:131-142
sanitize_input(data) ==
    IF data.type # "str" THEN data ELSE str(clean(data.value))

\* validate_json_input passing list values on as they are.
RECURSIVE validate_json_input_skipping_lists(_)
validate_json_input_skipping_lists(data) ==
    IF data.type # "dict" THEN data
    ELSE [type |-> "dict",
          value |-> [key \in DOMAIN data.value |->
                       LET value == data.value[key]
                       IN CASE value.type = "str" -> sanitize_input(value)
                            [] value.type = "dict" -> validate_json_input_skipping_lists(value)
                            [] OTHER -> value]]

\* security.py:145-166
RECURSIVE validate_json_input(_)
validate_json_input(data) ==
    IF data.type # "dict" THEN data
    ELSE [type |-> "dict",
          value |-> [key \in DOMAIN data.value |->
                       LET value == data.value[key]
                       IN CASE value.type = "str" -> sanitize_input(value)
                            [] value.type = "dict" -> validate_json_input(value)
                            [] value.type = "list" ->
                                 [type |-> "list",
                                  value |-> [i \in DOMAIN value.value |->
                                               LET item == value.value[i]
                                               IN CASE item.type = "str" -> sanitize_input(item)
                                                    [] item.type = "dict" -> validate_json_input(item)
                                                    [] OTHER -> item]]
                            [] OTHER -> value]]

\* ------------------------------------------- functions called on their own

\* allowed_hosts arguments: none given (None and [] alike), ["*"], ["Ex"],
\* ["ex"], ["vex"], ["xx", "v"], ["Ex", "*"] and [""].
AllowListArguments ==
    { <<>>, <<Star>>, << <<"E", "x">> >>, << <<"e", "x">> >>,
      << <<"v", "e", "x">> >>, << <<"x", "x">>, <<"v">> >>,
      << <<"E", "x">>, Star >>, << <<>> >> }

\* Host header values: "vEx", "v", "VEX", "ex", "x", "exv", "" and none.
HostArguments ==
    { h \in [{"host"} -> { <<"v", "E", "x">>, <<"v">>, <<"V", "E", "X">>, <<"e", "x">>,
                          <<"x">>, <<"e", "x", "v">>, <<>> }] : TRUE }
    \cup {NoHeaders}

ValidateHostArguments ==
    [fn : {"validate_host"}, setting : AllowListArguments,
     request : [method : {"GET"}, path : {"/health"}, headers : HostArguments]]

\* SecurityMiddleware(app, allowed_hosts=...)._validate_host(request)
Call_validate_host ==
    /\ arg.fn = "validate_host"
    /\ result = NoResult
    /\ result' = [fn |-> "validate_host",
                  accepted |-> validate_host(SecurityMiddleware_init(arg.setting), arg.request)]
    /\ UNCHANGED <<allowed_hosts, pc, request, state, exc, log, client, handler_runs, arg,
                   now, hits>>

\* Every text of up to MaxLen units.
Texts == UNION { [1..n -> Alphabet] : n \in 0..MaxLen }

\* sanitize_input(data): a string, or something else.
SanitizeInputArguments ==
    [fn : {"sanitize_input"}, value : {str(t) : t \in Texts} \cup {int(7)}]

\* The values inside a mapping: the strings "<b>b", "&" and "b", a number,
\* mappings of one key, lists of up to MaxItems items (strings, a number,
\* a mapping, a list).
Atoms == {str(<<"<", "b", ">", "b">>), str(<<"&">>), str(<<"b">>), int(7)}

InnerDicts == UNION { {dict(f) : f \in [K -> Atoms]} : K \in SUBSET {"k"} }

ListItems ==
    Atoms \cup {dict([k \in {"k"} |-> str(<<"&">>)]), list(<<str(<<"&">>)>>)}

Lists == UNION { {list(l) : l \in [1..n -> ListItems]} : n \in 0..MaxItems }

\* A mapping in a mapping in a mapping, and one in a list in a mapping.
DeepDicts ==
    { dict([k \in {"k"} |-> dict([j \in {"k"} |-> str(<<"<", "b", ">", "b">>)])]),
      dict([k \in {"k"} |-> list(<<dict([j \in {"k"} |-> str(<<"&">>)]), int(7)>>)]) }

Values == Atoms \cup InnerDicts \cup DeepDicts \cup Lists

\* validate_json_input(data): a mapping with no key, with the key "a", or
\* with the keys "a" and "c"; or something that is no mapping.
ValidateJsonInputArguments ==
    [fn : {"validate_json_input"},
     value : {dict([k \in {} |-> int(7)])}
             \cup {dict([k \in {"a"} |-> v]) : v \in Values}
             \cup {dict([k \in {"a", "c"} |-> IF k = "a" THEN v ELSE w]) :
                      v \in Values, w \in Atoms}
             \cup {str(<<"<", "b", ">", "b">>), list(<<str(<<"&">>)>>)}]

Call_sanitize_input ==
    /\ arg.fn = "sanitize_input"
    /\ result = NoResult
    /\ result' = [fn |-> "sanitize_input", value |-> sanitize_input(arg.value)]
    /\ UNCHANGED <<allowed_hosts, pc, request, state, exc, log, client, handler_runs, arg,
                   now, hits>>

Call_validate_json_input ==
    /\ arg.fn = "validate_json_input"
    /\ result = NoResult
    /\ result' = [fn |-> "validate_json_input", value |-> validate_json_input(arg.value)]
    /\ UNCHANGED <<allowed_hosts, pc, request, state, exc, log, client, handler_runs, arg,
                   now, hits>>

\* The function is called once more, on what it returned.
Call_sanitize_input_again ==
    /\ result.fn = "sanitize_input"
    /\ "again" \notin DOMAIN result
    /\ result' = [fn |-> "sanitize_input", value |-> result.value,
                  again |-> sanitize_input(result.value)]
    /\ UNCHANGED <<allowed_hosts, pc, request, state, exc, log, client, handler_runs, arg,
                   now, hits>>

Call_validate_json_input_again ==
    /\ result.fn = "validate_json_input"
    /\ "again" \notin DOMAIN result
    /\ result' = [fn |-> "validate_json_input", value |-> result.value,
                  again |-> validate_json_input(result.value)]
    /\ UNCHANGED <<allowed_hosts, pc, request, state, exc, log, client, handler_runs, arg,
                   now, hits>>

FunctionArguments ==
    ValidateHostArguments \cup SanitizeInputArguments \cup ValidateJsonInputArguments

FunctionInit ==
    /\ allowed_hosts = <<Star>>
    /\ pc = [r \in Reqs |-> "idle"]
    /\ request = [r \in Reqs |-> NoRequest]
    /\ state = [r \in Reqs |-> None]
    /\ exc = [r \in Reqs |-> NoExc]
    /\ log = [r \in Reqs |-> <<>>]
    /\ client = [r \in Reqs |-> <<>>]
    /\ handler_runs = [r \in Reqs |-> 0]
    /\ arg \in FunctionArguments
    /\ result = NoResult
    /\ now = 0
    /\ hits = NoHits

FunctionNext ==
    \/ Call_validate_host
    \/ Call_sanitize_input
    \/ Call_validate_json_input
    \/ Call_sanitize_input_again
    \/ Call_validate_json_input_again

FunctionSpec == FunctionInit /\ [][FunctionNext]_vars

\* An allow-list with the entry "*", or none given.
Wildcard(setting) == setting = <<>> \/ Star \in Range(setting)

HostOf(req) == Lower(Get(req.headers, "host", <<>>))

\* C12 as stated: under a non-wildcard allow-list a request is accepted
\* exactly when its lower-cased Host header contains an allow-list entry as
\* a substring; under a wildcard, empty or unset allow-list it is accepted.
C12_AcceptedIffHostContainsEntry ==
    result.fn = "validate_host"
    => (result.accepted
        <=> \/ Wildcard(arg.setting)
            \/ \E entry \in Range(arg.setting) : Contains(entry, HostOf(arg.request)))

\* C12, amended: the entry is lower-cased as well before the comparison.
C12_AcceptedIffHostContainsLoweredEntry ==
    result.fn = "validate_host"
    => (result.accepted
        <=> \/ Wildcard(arg.setting)
            \/ \E entry \in Range(arg.setting) :
                   Contains(Lower(entry), HostOf(arg.request)))

\* A host accepted under a non-wildcard allow-list by an entry that has an
\* upper-case letter.
C12_Witness ==
    /\ result.fn = "validate_host"
    /\ ~Wildcard(arg.setting)
    /\ result.accepted
    /\ "host" \in DOMAIN arg.request.headers
    /\ \E entry \in Range(arg.setting) : Lower(entry) # entry

\* C16: when the Error Classifier itself raises while it handles an
\* exception, the exception does not leave it and the request ends with the
\* 500 INTERNAL_SERVER_ERROR response.
C16_ClassifierFailureEndsIn500 ==
    \A r \in Reqs :
        (exc[r] # NoExc /\ str_raises(exc[r]) /\ pc[r] # "except")
        => /\ pc[r] # "raised"
           /\ client[r] # <<>>
           /\ client[r][Len(client[r])].origin = "error_handler"
           /\ client[r][Len(client[r])].status = 500
           /\ client[r][Len(client[r])].body.error = "INTERNAL_SERVER_ERROR"

\* The completion events in the log of request r.
CompletionEvents(r) ==
    {i \in DOMAIN log[r] : log[r][i].event = "Request completed"}

\* C17: a request whose response headers were written to the client, by
\* whichever stage, has exactly one completion event in the log, and the
\* event carries the status that was sent.
C17_OneCompletionEventPerResponse ==
    \A r \in Reqs :
        (pc[r] \in {"done", "raised"} /\ client[r] # <<>>)
        => /\ Cardinality(CompletionEvents(r)) = 1
           /\ \A i \in CompletionEvents(r) :
                  log[r][i].status_code = client[r][Len(client[r])].status

\* The Security Gate has handled request r.
PastSecurity(r) == pc[r] \notin {"idle", "request_validation", "security"}

\* The Security Gate rejected request r with the given status.
Rejected(r, status) ==
    /\ client[r] # <<>>
    /\ client[r][1].origin = "security"
    /\ client[r][1].status = status

\* C18: the correlation id is in the request context exactly from the
\* moment the Security Gate handles the request, whatever its checks
\* decide, so a request rejected with 400 or 413 has one and the completion
\* event of the rejection carries it; it is set in that one step only and
\* no later step changes it.
C18_IdAttachedOnceBeforeChecks ==
    /\ [](\A r \in Reqs :
            /\ PastSecurity(r) <=> state[r] \in Ids
            /\ ~PastSecurity(r) <=> state[r] = None
            /\ (Rejected(r, 400) \/ Rejected(r, 413))
               => \E i \in DOMAIN log[r] :
                      /\ log[r][i].event = "Request completed"
                      /\ log[r][i].request_id = state[r]
                      /\ log[r][i].request_id \in Ids)
    /\ [][\A r \in Reqs :
            state'[r] # state[r] => (state[r] = None /\ pc[r] = "security")]_vars

\* One request rejected with 400 and one rejected with 413, each with its
\* id in the context.
C18_Witness ==
    \E r, q \in Reqs :
        /\ Rejected(r, 400) /\ state[r] \in Ids
        /\ Rejected(q, 413) /\ state[q] \in Ids

C14_SanitizingIsIdempotent ==
    "again" \in DOMAIN result => result.again = result.value

\* A mapping with a nested mapping that sanitizing changed, sanitized twice.
C14_Witness ==
    /\ "again" \in DOMAIN result
    /\ result.fn = "validate_json_input"
    /\ arg.value.type = "dict"
    /\ \E key \in DOMAIN arg.value.value :
        /\ arg.value.value[key].type = "dict"
        /\ result.value.value[key] # arg.value.value[key]

\* out is the mapping C15 describes for the mapping in.
RECURSIVE IsSanitizedMapping(_, _)
IsSanitizedMapping(in, out) ==
    /\ out.type = "dict"
    /\ DOMAIN out.value = DOMAIN in.value
    /\ \A key \in DOMAIN in.value :
        LET v == in.value[key]
            w == out.value[key]
        IN /\ w.type = v.type
           /\ CASE v.type = "str" -> w = sanitize_input(v)
                [] v.type = "dict" -> IsSanitizedMapping(v, w)
                [] v.type = "list" ->
                     /\ Len(w.value) = Len(v.value)
                     /\ \A i \in DOMAIN v.value :
                         /\ w.value[i].type = v.value[i].type
                         /\ CASE v.value[i].type = "str" ->
                                    w.value[i] = sanitize_input(v.value[i])
                              [] v.value[i].type = "dict" ->
                                    IsSanitizedMapping(v.value[i], w.value[i])
                              [] OTHER -> w.value[i] = v.value[i]
                [] OTHER -> w = v

\* C15: validate_json_input of a mapping returns a mapping with the same
\* keys; a string value is sanitized, a mapping value is sanitized the same
\* way, a list value keeps its length with its strings and mappings
\* sanitized and its other items as they were, any other value is as it
\* was; and the call leaves its input as it was.
C15_MappingSanitizedByStructure ==
    /\ [](result.fn = "validate_json_input" /\ arg.value.type = "dict"
          => IsSanitizedMapping(arg.value, result.value))
    /\ [][arg' = arg]_vars

\* A mapping with a list that holds a string sanitizing changes and a list
\* sanitizing leaves alone.
C15_Witness ==
    /\ result.fn = "validate_json_input"
    /\ arg.value.type = "dict"
    /\ \E key \in DOMAIN arg.value.value :
        LET v == arg.value.value[key]
        IN /\ v.type = "list"
           /\ \E i, j \in DOMAIN v.value :
               /\ v.value[i].type = "str"
               /\ result.value.value[key].value[i] # v.value[i]
               /\ v.value[j].type = "list"
               /\ result.value.value[key].value[j] = v.value[j]

\* ------------------------------------------------------- rate limiting

\* The limiter counts one request of a client address at time t: the
\* window that began with the address's first counted request lasts
\* RateLimitWindow seconds; a request beyond RateLimitRequests in it raises
\* RateLimitExceeded with the seconds left of the window.
limiter_hit(h, t) ==
    IF h.count = 0 \/ t >= h.start + RateLimitWindow
    THEN [hits |-> [start |-> t, count |-> 1], exceeded |-> FALSE, retry_after |-> 0]
    ELSE [hits |-> [h EXCEPT !.count = IF @ > RateLimitRequests THEN @ ELSE @ + 1],
          exceeded |-> h.count + 1 > RateLimitRequests,
          retry_after |-> h.start + RateLimitWindow - t]

RateLimitExceeded(retry_after) ==
    [cls |-> "RateLimitExceeded", retry_after |-> retry_after]

\* rate_limit_handler without the retry_after field.
rate_limit_handler_without_retry_after(req, e, request_id) ==
    [log |-> [event |-> "Rate limit exceeded", level |-> "warning",
              client_ip |-> req.remote_address, request_id |-> request_id],
     response |-> JSONResponse(429,
                    [detail |-> <<"Rate limit exceeded. Please try again later.">>])]

\* security.py:170-184
rate_limit_handler(req, e, request_id) ==
    [log |-> [event |-> "Rate limit exceeded", level |-> "warning",
              client_ip |-> req.remote_address, request_id |-> request_id],
     response |-> JSONResponse(429,
                    [detail |-> <<"Rate limit exceeded. Please try again later.">>,
                     retry_after |-> e.retry_after])]

\* Requests to a rate-limited route, from either client address.
LimitedRequests ==
    [type : {"http"}, method : {"GET"}, path : {"/api/v1/alerts"}, headers : {NoHeaders},
     remote_address : Addresses]

LimitedResponse ==
    [status |-> 200, headers |-> << <<"content-type", "application/json">> >>,
     body |-> [message |-> "ok"]]

\* error_handler.py:21-29 for a request to a rate-limited route.
ErrorHandlerMiddleware_call_limited(r) ==
    /\ pc[r] = "idle"
    /\ \E req \in LimitedRequests : request' = [request EXCEPT ![r] = req]
    /\ pc' = [pc EXCEPT ![r] = "request_validation"]
    /\ UNCHANGED <<allowed_hosts, state, exc, log, client, handler_runs, other_vars>>

\* A rate-limited route: the limiter counts the request; within the limit
\* the handler answers, beyond it RateLimitExceeded goes to the handler
\* app.py:30 registers, whose response leaves like any handler's.
Route_limited(r) ==
    /\ pc[r] = "route"
    /\ handler_runs' = [handler_runs EXCEPT ![r] = @ + 1]
    /\ LET a == request[r].remote_address
           counted == limiter_hit(hits[a], now)
       IN /\ hits' = [hits EXCEPT ![a] = counted.hits]
          /\ IF counted.exceeded
             THEN LET e == RateLimitExceeded(counted.retry_after)
                      handled == rate_limit_handler(request[r], e, state[r])
                      message == security_send_wrapper(
                                     Message("rate_limit_handler", handled.response), state[r])
                  IN /\ exc' = [exc EXCEPT ![r] = e]
                     /\ log' = [log EXCEPT ![r] =
                                  Append(Append(@, handled.log),
                                         request_completed_event(message, state[r]))]
                     /\ client' = [client EXCEPT ![r] = Append(@, message)]
             ELSE /\ route_send(r, "route", LimitedResponse)
                  /\ UNCHANGED exc
    /\ pc' = [pc EXCEPT ![r] = "done"]
    /\ UNCHANGED <<allowed_hosts, request, state, arg, result, now>>

\* The response is complete: the task ends and its request context goes.
Finish(r) ==
    /\ pc[r] = "done"
    /\ pc' = [pc EXCEPT ![r] = "idle"]
    /\ request' = [request EXCEPT ![r] = NoRequest]
    /\ state' = [state EXCEPT ![r] = None]
    /\ exc' = [exc EXCEPT ![r] = NoExc]
    /\ log' = [log EXCEPT ![r] = <<>>]
    /\ client' = [client EXCEPT ![r] = <<>>]
    /\ handler_runs' = [handler_runs EXCEPT ![r] = 0]
    /\ UNCHANGED <<allowed_hosts, other_vars>>

\* A second passes.
Tick ==
    /\ now < MaxTime
    /\ now' = now + 1
    /\ UNCHANGED <<allowed_hosts, pc, request, state, exc, log, client, handler_runs,
                   arg, result, hits>>

RateLimitInit ==
    /\ allowed_hosts = <<Star>>
    /\ pc = [r \in Reqs |-> "idle"]
    /\ request = [r \in Reqs |-> NoRequest]
    /\ state = [r \in Reqs |-> None]
    /\ exc = [r \in Reqs |-> NoExc]
    /\ log = [r \in Reqs |-> <<>>]
    /\ client = [r \in Reqs |-> <<>>]
    /\ handler_runs = [r \in Reqs |-> 0]
    /\ arg = NoArg
    /\ result = NoResult
    /\ now = 0
    /\ hits = NoHits

RateLimitNext ==
    \/ \E r \in Reqs :
        \/ ErrorHandlerMiddleware_call_limited(r)
        \/ RequestValidationMiddleware_call(r)
        \/ SecurityMiddleware_call(r)
        \/ Route_limited(r)
        \/ Finish(r)
    \/ Tick

RateLimitSpec == RateLimitInit /\ [][RateLimitNext]_vars

\* What request r was answered with last.
Answer(r) == client[r][Len(client[r])]

DeclaresMaximum(req) ==
    LET content_length == Get(req.headers, "content-length", <<>>)
    IN IntParses(content_length) /\ IntOf(content_length) = MaxRequestSize

\* The Security Gate handed request r to the stage inside it.
Delegated(r) == pc[r] = "route" \/ handler_runs[r] > 0

\* C21: a request without a Content-Length header is never answered 413; a
\* request that declares exactly the maximum is never answered 413 and,
\* its host allowed, goes on to the route; and a 413 is only ever sent for
\* a declared length above the maximum.
C21_OnlyAboveMaximumIs413 ==
    \A r \in Reqs :
        /\ (PastSecurity(r) /\ "content-length" \notin DOMAIN request[r].headers)
           => /\ ~Rejected(r, 413)
              /\ validate_host(allowed_hosts, request[r]) => Delegated(r)
        /\ (PastSecurity(r) /\ DeclaresMaximum(request[r]))
           => /\ ~Rejected(r, 413)
              /\ validate_host(allowed_hosts, request[r]) => Delegated(r)
        /\ Rejected(r, 413) => DeclaresTooLarge(request[r])

\* A request declaring the maximum and one declaring nothing, both handed
\* to a route handler.
C21_Witness ==
    \E r, q \in Reqs :
        /\ DeclaresMaximum(request[r]) /\ handler_runs[r] = 1
        /\ "content-length" \notin DOMAIN request[q].headers /\ handler_runs[q] = 1

\* C22: at most one response start is sent towards the client for a
\* request, also when the route handler raises after its response has
\* started.
C22_AtMostOneResponseStart ==
    \A r \in Reqs : Len(client[r]) <= 1

\* The Content-Length header of the request is there and is no number.
MalformedLength(req) ==
    LET content_length == Get(req.headers, "content-length", <<>>)
    IN content_length # <<>> /\ ~IntParses(content_length)

\* C23: whatever the Content-Length header holds, the Security Gate, the
\* host being allowed, answers 413 or hands the request to the next stage;
\* it raises nothing, and a malformed value never ends in a 500 response.
C23_SecurityGateNeverRaises ==
    \A r \in Reqs :
        /\ (PastSecurity(r) /\ validate_host(allowed_hosts, request[r]))
           => (Rejected(r, 413) \/ Delegated(r))
        /\ (handler_runs[r] = 0) => exc[r] = NoExc
        /\ MalformedLength(request[r])
           => \A i \in DOMAIN client[r] : client[r][i].status # 500

\* The names the Security Gate's send_wrapper sets.
InjectedNames == {security_headers(None)[i][1] : i \in 1..Len(security_headers(None))}

\* The header lines of one name, in order.
Lines(headers, name) == SelectSeq(headers, LAMBDA line : line[1] = name)

\* C24: a route handler's response leaves the Security Gate's send_wrapper
\* with its status and body as they were and, for every name that is not
\* one of the six injected names, the same header lines with the same
\* values, as many times as the handler set them.
C24_InjectionKeepsOtherHeaders ==
    \A r \in Reqs : \A i \in DOMAIN client[r] :
        client[r][i].origin = "route"
        => \E response \in RouteResponses :
               /\ client[r][i].status = response.status
               /\ client[r][i].body = response.body
               /\ \A j \in DOMAIN client[r][i].headers :
                      client[r][i].headers[j][1] \notin InjectedNames
                      => \E k \in DOMAIN response.headers :
                             response.headers[k] = client[r][i].headers[j]
               /\ \A k \in DOMAIN response.headers :
                      response.headers[k][1] \notin InjectedNames
                      => Lines(client[r][i].headers, response.headers[k][1])
                         = Lines(response.headers, response.headers[k][1])

\* ------------------------------------------------------ other protocols

\* error_handler.py:21-24: an event of another protocol arrives at the
\* outermost stage, which calls the next stage outside any try.
ErrorHandlerMiddleware_call_other(r) ==
    /\ pc[r] = "idle"
    /\ \E scope \in OtherScopes : request' = [request EXCEPT ![r] = scope]
    /\ pc' = [pc EXCEPT ![r] = "request_validation"]
    /\ UNCHANGED <<allowed_hosts, state, exc, log, client, handler_runs, other_vars>>

\* What the application inside the three stages sends for such an event.
AppMessages ==
    { [origin |-> "app", type |-> "websocket.accept",
       headers |-> << <<"set-cookie", "a=1">>, <<"set-cookie", "b=2">> >>],
      [origin |-> "app", type |-> "websocket.send", headers |-> <<>>],
      [origin |-> "app", type |-> "lifespan.startup.complete", headers |-> <<>>] }

\* The application sends a message with the `send` it was given: for an
\* event of another protocol every stage passed its own `send` on, so the
\* message goes out as it is.
App_send(r) ==
    /\ pc[r] = "app"
    /\ Len(client[r]) < 2
    /\ \E message \in AppMessages : client' = [client EXCEPT ![r] = Append(@, message)]
    /\ UNCHANGED <<allowed_hosts, pc, request, state, exc, log, handler_runs, other_vars>>

\* The application returns, and so does each stage.
App_return(r) ==
    /\ pc[r] = "app"
    /\ pc' = [pc EXCEPT ![r] = "done"]
    /\ UNCHANGED <<allowed_hosts, request, state, exc, log, client, handler_runs, other_vars>>

\* The application raises: for an HTTP request the exception would reach
\* the except clause of ErrorHandlerMiddleware; for another protocol the
\* call is outside the try and the exception leaves the stack.
App_raise(r) ==
    /\ pc[r] = "app"
    /\ \E e \in LateErrors : exc' = [exc EXCEPT ![r] = e]
    /\ pc' = [pc EXCEPT ![r] = IF is_http(request[r]) THEN "except" ELSE "raised"]
    /\ UNCHANGED <<allowed_hosts, request, state, log, client, handler_runs, other_vars>>

ProtocolNext ==
    \E r \in Reqs :
        \/ ErrorHandlerMiddleware_call_other(r)
        \/ RequestValidationMiddleware_call(r)
        \/ SecurityMiddleware_call(r)
        \/ App_send(r)
        \/ App_return(r)
        \/ App_raise(r)

ProtocolSpec == Init /\ [][ProtocolNext]_vars

\* C25: an event whose scope type is not http passes the three stages
\* untouched: no correlation id, no host or size rejection, no log event,
\* every message the application sends reaches the client as it was sent,
\* and an exception of the application leaves the stack with no response
\* made of it.
C25_OtherProtocolsPassThrough ==
    \A r \in Reqs :
        (request[r].type \notin {"", "http"})
        => /\ state[r] = None
           /\ log[r] = <<>>
           /\ pc[r] \in {"request_validation", "security", "app", "done", "raised"}
           /\ \A i \in DOMAIN client[r] : client[r][i] \in AppMessages
           /\ exc[r] # NoExc => pc[r] = "raised"

\* A websocket connection with a host outside the allow-list and a
\* Content-Length above the maximum whose application sent two messages
\* and raised, and a lifespan event that passed through.
C25_Witness ==
    \E r, q \in Reqs :
        /\ request[r].type = "websocket"
        /\ "host" \in DOMAIN request[r].headers
        /\ ~validate_host(allowed_hosts, request[r])
        /\ DeclaresTooLarge(request[r])
        /\ Len(client[r]) = 2
        /\ pc[r] = "raised"
        /\ request[q].type = "lifespan"
        /\ pc[q] = "done"

====
